---- MODULE Spec2Model ----
(***************************************************************************)
(* Model of graph_classification_tutorial.ipynb: an ENZYMES graph          *)
(* classification run (load, split, batch, train, validate).               *)
(*                                                                         *)
(* Indices of graphs are 0-based as in Python; sequences are TLA+          *)
(* sequences, so seq[k+1] is Python's seq[k].                              *)
(***************************************************************************)
EXTENDS Integers, Sequences, FiniteSets, TLC

(***************************************************************************)
(* Bounds of the model.                                                    *)
(***************************************************************************)
\* largest dataset size whose permutations are all enumerated
MaxN == 4
\* how many times the split cell is executed when two runs are compared
MaxRuns == 2
\* number of distinct states of numpy's global generator that are told apart
MaxRng == 2
\* a dataset larger than ENZYMES, whose train subset takes several batches
LargeSize == 700
\* largest epoch count tried when the training loop's epoch count is free
MaxEpochs == 3
\* longest list of datapoints handed to collate_fn
MaxBatch == 2
\* most nodes in a graph of such a list
MaxNodes == 2

(***************************************************************************)
(* Program constants.                                                      *)
(***************************************************************************)
\* TUDataset("ENZYMES") holds 600 graphs
EnzymesSize == 600
\* random_state=42
Seed == 42
\* Python's None, for a random_state that is not given
None == 0 - 1
\* DataLoader(..., batch_size=512, ...)
BatchSize == 512
\* epochs = 500 if torch.cuda.is_available() else 50
EpochsCuda == 500
EpochsCpu == 50
\* out_feats=6: labels are 0..5
NumClasses == 6

(***************************************************************************)
(* Helpers on sequences.                                                   *)
(***************************************************************************)
Range(s) == {s[k] : k \in 1..Len(s)}

RECURSIVE SumSeq(_)
SumSeq(s) == IF s = <<>> THEN 0 ELSE s[1] + SumSeq(Tail(s))

\* Python's s[a:b] for 0 <= a <= b <= len(s)
Slice(s, a, b) == SubSeq(s, a + 1, b)

\* all orderings of 0..n-1
Permutations0(n) ==
    {p \in [1..n -> 0..(n - 1)] : \A a, b \in 1..n : p[a] = p[b] => a = b}

\* 0..n-1 in order (numpy.arange)
Arange(n) == [k \in 1..n |-> k - 1]

(***************************************************************************)
(* dgl.data.utils.split_dataset(dataset, frac_list, shuffle, random_state) *)
(* Fractions are written in tenths: [0.8, 0.2] is <<8, 2>>.                *)
(***************************************************************************)
\* (num_data * frac).astype(int): the float product truncated.  For the
\* fractions used here and num_data < 2*10^6 the truncated double equals
\* the exact integer quotient below.
FracLength(num_data, tenths) == (num_data * tenths) \div 10

\* lengths = (num_data * frac_list).astype(int);
\* lengths[-1] = num_data - sum(lengths[:-1])
Lengths(num_data, frac_list) ==
    LET raw  == [k \in 1..Len(frac_list) |-> FracLength(num_data, frac_list[k])]
        last == Len(frac_list)
    IN  [k \in 1..last |->
            IF k = last THEN num_data - SumSeq(SubSeq(raw, 1, last - 1))
                        ELSE raw[k]]

\* accumulate(lengths)[k]
Offset(lengths, k) == SumSeq(SubSeq(lengths, 1, k))

\* np.random.RandomState(seed=random_state).permutation(num_data): a
\* generator of its own.  With an integer seed its output is the function
\* mt of the seed alone; with None it is seeded from fresh entropy.
RandomStatePermutation(random_state, mt, entropy) ==
    IF random_state = None THEN entropy ELSE mt[random_state]

\* the list of Subsets (each a sequence of dataset indices), or
\* "AssertionError" when the fractions do not sum to 1
split_dataset(num_data, frac_list, shuffle, random_state, mt, entropy) ==
    IF SumSeq(frac_list) # 10 THEN "AssertionError"
    ELSE
      LET lengths == Lengths(num_data, frac_list)
          indices == IF shuffle
                       THEN RandomStatePermutation(random_state, mt, entropy)
                       ELSE Arange(num_data)
      IN  [k \in 1..Len(frac_list) |->
              Slice(indices, Offset(lengths, k) - lengths[k], Offset(lengths, k))]

(***************************************************************************)
(* State.                                                                  *)
(***************************************************************************)
VARIABLES
    pc,             \* the cell (and the statement in it) that runs next
    num_data,       \* len(dataset)
    mt,             \* what RandomState(seed).permutation(num_data) returns
    np_global,      \* state of numpy's global generator
    trainset,       \* Subset: sequence of dataset indices
    valset,         \* Subset: sequence of dataset indices
    split_log,      \* one entry per execution of the split cell
    cuda,           \* torch.cuda.is_available()
    epochs,         \* the epoch count chosen by the setup cell
    i,              \* the epoch the training loop is in
    batch_id,       \* batches the current pass has taken from its loader
    batch,          \* dataset indices of the current batch, in loader order
    logits,         \* output of the last forward pass
    loss,           \* value of the last loss computation
    grads,          \* .grad of the parameters: the losses accumulated in it
    params,         \* the parameters: number of updates applied to them
    opt_steps,      \* calls of optimizer.step() so far
    training,       \* model.training
    loss_list,      \* len(loss_list)
    true_samples,
    num_samples,
    visited,        \* dataset indices counted in num_samples in this pass
    lines,          \* number of "Epoch ..." lines printed
    last_line,      \* the last line printed: what its numbers were made from
    data,           \* the list of (graph, label) pairs handed to collate_fn
    collated,       \* what collate_fn returned for it
    weights,        \* the parameters as numbers, where a forward pass is computed
    output          \* what the forward pass returned for the collated batch

splitVars == <<num_data, mt, np_global, trainset, valset, split_log>>

envVars == <<cuda, epochs>>

stepVars == <<batch, logits, loss, grads, params, opt_steps, training>>

countVars == <<i, batch_id, loss_list, true_samples, num_samples, visited,
               lines, last_line>>

batchVars == <<data, collated, weights, output>>

runVars == <<envVars, stepVars, countVars, batchVars>>

vars == <<pc, splitVars, batchVars, runVars>>

\* the value of everything the run has not yet assigned
NotYetRun ==
    /\ epochs = None
    /\ i = None
    /\ batch_id = 0
    /\ batch = <<>>
    /\ logits = <<>>
    /\ loss = <<>>
    /\ grads = <<>>
    /\ params = 0
    /\ opt_steps = 0
    /\ training = TRUE
    /\ loss_list = 0
    /\ true_samples = 0
    /\ num_samples = 0
    /\ visited = <<>>
    /\ lines = 0
    /\ last_line = <<>>

\* no batch has been collated outside the loops
NoBatch ==
    /\ data = <<>>
    /\ collated = [status |-> "pending", bg |-> <<>>, labels |-> <<>>]
    /\ weights = <<>>
    /\ output = <<>>

\* the orderings a seeded generator may stand for: every one for a small
\* dataset, a few for a large one
Reversed(n) == [k \in 1..n |-> n - k]
Rotated(n, r) == [k \in 1..n |-> (k - 1 + r) % n]
PermChoices(n) ==
    IF n <= MaxN THEN Permutations0(n)
                 ELSE {Reversed(n), Rotated(n, 7)}

(***************************************************************************)
(* Cell 9: nx.draw_spring(graph.to_networkx()).  The spring layout draws   *)
(* its start positions from numpy's global generator.                      *)
(***************************************************************************)
DrawSpring ==
    /\ np_global' = (np_global + 1) % MaxRng

(***************************************************************************)
(* Cell 11:                                                                *)
(* trainset, valset = split_dataset(dataset, [0.8, 0.2], shuffle=True,     *)
(*                                  random_state=42)                       *)
(***************************************************************************)
SplitCellUnseeded(n, gen, entropy) ==
    LET r == split_dataset(n, <<8, 2>>, TRUE, None, gen, entropy)
    IN  <<r[1], r[2]>>

SplitCellThreeWay(n, gen, entropy) ==
    LET r == split_dataset(n, <<8, 1, 1>>, TRUE, Seed, gen, entropy)
    IN  <<r[1], r[2]>>

SplitCellSevenThree(n, gen, entropy) ==
    LET r == split_dataset(n, <<7, 3>>, TRUE, Seed, gen, entropy)
    IN  <<r[1], r[2]>>

SplitCellResult(n, gen, entropy) ==
    LET r == split_dataset(n, <<8, 2>>, TRUE, Seed, gen, entropy)
    IN  <<r[1], r[2]>>

SplitCell ==
    \E entropy \in PermChoices(num_data) :
        LET r == SplitCellResult(num_data, mt, entropy)
        IN  /\ trainset' = r[1]
            /\ valset' = r[2]
            /\ split_log' = Append(split_log,
                                   [train |-> r[1], val |-> r[2], rng |-> np_global])
            /\ UNCHANGED <<num_data, mt, np_global>>

(***************************************************************************)
(* SpecSplit: the split cell alone, for every small dataset size and the   *)
(* ENZYMES size, executed up to MaxRuns times with other cells (which move *)
(* the global generator) run in between.                                   *)
(***************************************************************************)
SplitSizes == (0..MaxN) \cup {EnzymesSize}

InitSplit ==
    /\ pc = "split"
    /\ num_data \in SplitSizes
    /\ mt \in [{Seed} -> PermChoices(num_data)]
    /\ np_global = 0
    /\ trainset = <<>>
    /\ valset = <<>>
    /\ split_log = <<>>
    /\ cuda = FALSE
    /\ NotYetRun
    /\ NoBatch

RunSplitCell ==
    /\ Len(split_log) < MaxRuns
    /\ SplitCell
    /\ UNCHANGED <<pc, runVars>>

RunDrawCell ==
    /\ Len(split_log) < MaxRuns
    /\ DrawSpring
    /\ UNCHANGED <<pc, num_data, mt, trainset, valset, split_log, runVars>>

NextSplit == RunSplitCell \/ RunDrawCell

SpecSplit == InitSplit /\ [][NextSplit]_vars

\* C1: every execution of the split cell yields a train and a validation
\* index set that are disjoint, hold no index twice, and together are
\* exactly 0..N-1.
C1_SplitPartitions ==
    \A k \in 1..Len(split_log) :
        LET tr == split_log[k].train
            va == split_log[k].val
        IN  /\ Range(tr) \cap Range(va) = {}
            /\ Range(tr) \cup Range(va) = 0..(num_data - 1)
            /\ Len(tr) + Len(va) = num_data

C1_Witness ==
    /\ Len(split_log) >= 1
    /\ num_data = MaxN
    /\ trainset # <<>> /\ valset # <<>>
    /\ mt[Seed] # Arange(num_data)

Abs(x) == IF x < 0 THEN 0 - x ELSE x

\* C2: the partition sizes differ from 0.8*N and 0.2*N by at most one
\* element, and a dataset of 600 graphs is split into 480 and 120.
C2_SplitSizes ==
    \A k \in 1..Len(split_log) :
        LET tr == split_log[k].train
            va == split_log[k].val
        IN  /\ Abs(10 * Len(tr) - 8 * num_data) <= 10
            /\ Abs(10 * Len(va) - 2 * num_data) <= 10
            /\ num_data = EnzymesSize => Len(tr) = 480 /\ Len(va) = 120

C2_Witness ==
    /\ num_data = EnzymesSize
    /\ Len(split_log) >= 1
    /\ Len(trainset) = 480
    /\ Len(valset) = 120

LoadDataset ==
    /\ pc = "load"
    /\ pc' = IF num_data = 0 THEN "error" ELSE "draw"
    /\ UNCHANGED <<splitVars, batchVars, runVars>>

\* Cell 9
DrawCell ==
    /\ pc = "draw"
    /\ DrawSpring
    /\ pc' = "split"
    /\ UNCHANGED <<num_data, mt, trainset, valset, split_log, runVars>>

\* Cell 11
SplitStep ==
    /\ pc = "split"
    /\ SplitCell
    /\ pc' = "loaders"
    /\ UNCHANGED runVars

\* Cell 15: the two DataLoaders are built; nothing is read until a loop
\* iterates them.
LoadersCell ==
    /\ pc = "loaders"
    /\ pc' = "setup"
    /\ UNCHANGED <<splitVars, batchVars, runVars>>

\* DataLoader(subset, batch_size=512, collate_fn=...), sequential sampler,
\* last partial batch kept: the indices of batch number b (from 0), and the
\* number of batches of one pass.
LoaderBatch(subset, b) ==
    Slice(subset, b * BatchSize,
          IF (b + 1) * BatchSize < Len(subset) THEN (b + 1) * BatchSize
                                               ELSE Len(subset))

LoaderExhausted(subset, b) == b * BatchSize >= Len(subset)

NumBatches(subset) == (Len(subset) + BatchSize - 1) \div BatchSize

\* Cell 21
SetupCell ==
    /\ pc = "setup"
    /\ epochs' = IF cuda THEN EpochsCuda ELSE EpochsCpu
    /\ params' = 0
    /\ opt_steps' = 0
    /\ grads' = <<>>
    /\ pc' = "train_mode"
    /\ UNCHANGED <<splitVars, batchVars, cuda, batch, logits, loss, training, countVars>>

\* the numbers of rows of a batch of n graphs whose argmax may equal the label
CorrectChoices(n) == {n \div 3, n}

\* Cell 22, model.train() and the first evaluation of range(epochs)
TrainMode ==
    /\ pc = "train_mode"
    /\ training' = TRUE
    /\ i' = 0
    /\ pc' = "epoch"
    /\ UNCHANGED <<splitVars, batchVars, envVars, batch, logits, loss, grads, params,
                   opt_steps, batch_id, loss_list, true_samples, num_samples,
                   visited, lines, last_line>>

EpochHeadOffByOne ==
    /\ pc = "epoch"
    /\ IF i <= epochs
         THEN /\ loss_list' = 0
              /\ true_samples' = 0
              /\ num_samples' = 0
              /\ visited' = <<>>
              /\ batch_id' = 0
              /\ pc' = "fetch"
         ELSE /\ pc' = "eval_mode"
              /\ UNCHANGED <<loss_list, true_samples, num_samples, visited,
                             batch_id>>
    /\ UNCHANGED <<splitVars, batchVars, envVars, stepVars, i, lines, last_line>>

EpochHeadNoReset ==
    /\ pc = "epoch"
    /\ IF i < epochs
         THEN /\ loss_list' = 0
              /\ visited' = <<>>
              /\ batch_id' = 0
              /\ pc' = "fetch"
              /\ UNCHANGED <<true_samples, num_samples>>
         ELSE /\ pc' = "eval_mode"
              /\ UNCHANGED <<loss_list, true_samples, num_samples, visited,
                             batch_id>>
    /\ UNCHANGED <<splitVars, batchVars, envVars, stepVars, i, lines, last_line>>

\* for i in range(epochs): loss_list = []; true_samples = 0; num_samples = 0
EpochHead ==
    /\ pc = "epoch"
    /\ IF i < epochs
         THEN /\ loss_list' = 0
              /\ true_samples' = 0
              /\ num_samples' = 0
              /\ visited' = <<>>
              /\ batch_id' = 0
              /\ pc' = "fetch"
         ELSE /\ pc' = "eval_mode"
              /\ UNCHANGED <<loss_list, true_samples, num_samples, visited,
                             batch_id>>
    /\ UNCHANGED <<splitVars, batchVars, envVars, stepVars, i, lines, last_line>>

\* for batch_id, batch_data in enumerate(train_loader): bg, labels = ...
Fetch ==
    /\ pc = "fetch"
    /\ IF LoaderExhausted(trainset, batch_id)
         THEN /\ pc' = "print"
              /\ UNCHANGED <<batch, batch_id>>
         ELSE /\ batch' = LoaderBatch(trainset, batch_id)
              /\ batch_id' = batch_id + 1
              /\ pc' = "forward"
    /\ UNCHANGED <<splitVars, batchVars, envVars, logits, loss, grads, params, opt_steps,
                   training, i, loss_list, true_samples, num_samples, visited,
                   lines, last_line>>

\* logits = model(bg, atom_feats)
Forward ==
    /\ pc = "forward"
    /\ \E c \in CorrectChoices(Len(batch)) :
          logits' = [epoch |-> i, batch_id |-> batch_id, params |-> params,
                     rows |-> Len(batch), correct |-> c]
    /\ pc' = "loss"
    /\ UNCHANGED <<splitVars, batchVars, envVars, batch, loss, grads, params, opt_steps,
                   training, countVars>>

\* loss = loss_criterion(logits, labels)
Loss ==
    /\ pc = "loss"
    /\ loss' = [epoch |-> logits.epoch, batch_id |-> logits.batch_id,
                params |-> logits.params]
    /\ pc' = "accumulate"
    /\ UNCHANGED <<splitVars, batchVars, envVars, batch, logits, grads, params, opt_steps,
                   training, countVars>>

\* true_samples += ...; num_samples += len(labels); loss_list.append(...)
Accumulate ==
    /\ pc = "accumulate"
    /\ true_samples' = true_samples + logits.correct
    /\ num_samples' = num_samples + Len(batch)
    /\ loss_list' = loss_list + 1
    /\ visited' = visited \o batch
    /\ pc' = "zero_grad"
    /\ UNCHANGED <<splitVars, batchVars, envVars, stepVars, i, batch_id, lines, last_line>>

\* optimizer.zero_grad()
ZeroGrad ==
    /\ pc = "zero_grad"
    /\ grads' = <<>>
    /\ pc' = "backward"
    /\ UNCHANGED <<splitVars, batchVars, envVars, batch, logits, loss, params, opt_steps,
                   training, countVars>>

BackwardSkipsStep ==
    /\ pc = "backward"
    /\ grads' = Append(grads, loss)
    /\ pc' = "fetch"
    /\ UNCHANGED <<splitVars, batchVars, envVars, batch, logits, loss, params, opt_steps,
                   training, countVars>>

\* loss.backward(): the gradient of the loss is added to .grad
Backward ==
    /\ pc = "backward"
    /\ grads' = Append(grads, loss)
    /\ pc' = "step"
    /\ UNCHANGED <<splitVars, batchVars, envVars, batch, logits, loss, params, opt_steps,
                   training, countVars>>

\* optimizer.step(): parameters without a gradient are skipped
Step ==
    /\ pc = "step"
    /\ opt_steps' = opt_steps + 1
    /\ params' = IF grads = <<>> THEN params ELSE params + 1
    /\ pc' = "fetch"
    /\ UNCHANGED <<splitVars, batchVars, envVars, batch, logits, loss, grads, training,
                   countVars>>

\* print("Epoch ...".format(i, np.mean(loss_list), true_samples/num_samples))
PrintEpoch ==
    /\ pc = "print"
    /\ IF num_samples = 0
         THEN /\ pc' = "error"
              /\ UNCHANGED <<i, lines, last_line>>
         ELSE /\ lines' = lines + 1
              /\ last_line' = [kind |-> "epoch", epoch |-> i,
                               true |-> true_samples, num |-> num_samples]
              /\ i' = i + 1
              /\ pc' = "epoch"
    /\ UNCHANGED <<splitVars, batchVars, envVars, stepVars, batch_id, loss_list,
                   true_samples, num_samples, visited>>

\* Cell 24: model.eval(); true_samples = 0; num_samples = 0
EvalHead ==
    /\ pc = "eval_mode"
    /\ training' = FALSE
    /\ true_samples' = 0
    /\ num_samples' = 0
    /\ visited' = <<>>
    /\ batch_id' = 0
    /\ pc' = "val_fetch"
    /\ UNCHANGED <<splitVars, batchVars, envVars, batch, logits, loss, grads, params,
                   opt_steps, i, loss_list, lines, last_line>>

\* for batch_id, batch_data in enumerate(val_loader): bg, labels = ...
ValFetch ==
    /\ pc = "val_fetch"
    /\ IF LoaderExhausted(valset, batch_id)
         THEN /\ pc' = "val_print"
              /\ UNCHANGED <<batch, batch_id>>
         ELSE /\ batch' = LoaderBatch(valset, batch_id)
              /\ batch_id' = batch_id + 1
              /\ pc' = "val_forward"
    /\ UNCHANGED <<splitVars, batchVars, envVars, logits, loss, grads, params, opt_steps,
                   training, i, loss_list, true_samples, num_samples, visited,
                   lines, last_line>>

\* logits = model(bg, atom_feats); logits.argmax()
ValForward ==
    /\ pc = "val_forward"
    /\ \E c \in CorrectChoices(Len(batch)) :
          logits' = [epoch |-> i, batch_id |-> batch_id, params |-> params,
                     rows |-> Len(batch), correct |-> c]
    /\ pc' = "val_accumulate"
    /\ UNCHANGED <<splitVars, batchVars, envVars, batch, loss, grads, params, opt_steps,
                   training, countVars>>

ValAccumulateSteps ==
    /\ pc = "val_accumulate"
    /\ num_samples' = num_samples + Len(batch)
    /\ true_samples' = true_samples + logits.correct
    /\ visited' = visited \o batch
    /\ opt_steps' = opt_steps + 1
    /\ params' = params + 1
    /\ pc' = "val_fetch"
    /\ UNCHANGED <<splitVars, batchVars, envVars, batch, logits, loss, grads, training,
                   i, batch_id, loss_list, lines, last_line>>

\* num_samples += len(labels); true_samples += ...
ValAccumulate ==
    /\ pc = "val_accumulate"
    /\ num_samples' = num_samples + Len(batch)
    /\ true_samples' = true_samples + logits.correct
    /\ visited' = visited \o batch
    /\ pc' = "val_fetch"
    /\ UNCHANGED <<splitVars, batchVars, envVars, stepVars, i, batch_id, loss_list, lines,
                   last_line>>

\* print("Validation Accuracy: ...".format(true_samples/num_samples))
ValPrint ==
    /\ pc = "val_print"
    /\ IF num_samples = 0
         THEN /\ pc' = "error"
              /\ UNCHANGED last_line
         ELSE /\ last_line' = [kind |-> "val", epoch |-> i,
                               true |-> true_samples, num |-> num_samples]
              /\ pc' = "done"
    /\ UNCHANGED <<splitVars, batchVars, envVars, stepVars, i, batch_id, loss_list,
                   true_samples, num_samples, visited, lines>>

TrainingCell ==
    \/ TrainMode \/ EpochHead \/ Fetch \/ Forward \/ Loss \/ Accumulate
    \/ ZeroGrad \/ Backward \/ Step \/ PrintEpoch

ValidationCell == EvalHead \/ ValFetch \/ ValForward \/ ValAccumulate \/ ValPrint

MainSizes == {EnzymesSize, LargeSize}

Init ==
    /\ pc = "load"
    /\ num_data \in MainSizes
    /\ mt \in [{Seed} -> PermChoices(num_data)]
    /\ np_global = 0
    /\ trainset = <<>>
    /\ valset = <<>>
    /\ split_log = <<>>
    /\ cuda \in BOOLEAN
    /\ NotYetRun
    /\ NoBatch

Next ==
    \/ LoadDataset \/ DrawCell \/ SplitStep \/ LoadersCell \/ SetupCell
    \/ TrainingCell \/ ValidationCell

Spec == Init /\ [][Next]_vars

(***************************************************************************)
(* Batching.  A graph is [n, edges, node_attr]: nodes 0..n-1, directed     *)
(* edges <<u, v>> (an undirected edge is both directions), and one feature *)
(* per node (the feature width 18 is narrowed to one number).              *)
(***************************************************************************)
RECURSIVE Flatten(_)
Flatten(ss) == IF ss = <<>> THEN <<>> ELSE ss[1] \o Flatten(Tail(ss))

\* dgl.batch(graphs): the disjoint union.  The nodes of graph k are
\* renumbered to start after those of graphs 1..k-1; batch_num_nodes keeps
\* the boundaries.
dgl_batch(graphs) ==
    LET nn == [k \in 1..Len(graphs) |-> graphs[k].n]
        first(k) == SumSeq(SubSeq(nn, 1, k - 1))
    IN  [n |-> SumSeq(nn),
         edges |-> UNION {{<<e[1] + first(k), e[2] + first(k)>> :
                              e \in graphs[k].edges} : k \in 1..Len(graphs)},
         node_attr |-> Flatten([k \in 1..Len(graphs) |-> graphs[k].node_attr]),
         batch_num_nodes |-> nn]

\* torch.stack(labels, dim=0)
torch_stack(tensors) == [k \in 1..Len(tensors) |-> tensors[k]]

SortedByNodes(graphs) ==
    CHOOSE s \in [1..Len(graphs) -> Range(graphs)] :
        /\ \A g \in Range(graphs) :
              Cardinality({k \in 1..Len(graphs) : s[k] = g})
                  = Cardinality({k \in 1..Len(graphs) : graphs[k] = g})
        /\ \A a, b \in 1..Len(graphs) : a < b => s[a].n <= s[b].n

collate_sorted(datapoints) ==
    IF datapoints = <<>>
      THEN [status |-> "ValueError", bg |-> <<>>, labels |-> <<>>]
      ELSE LET graphs == [k \in 1..Len(datapoints) |-> datapoints[k][1]]
               labels == [k \in 1..Len(datapoints) |-> datapoints[k][2]]
           IN  [status |-> "ok",
                bg |-> dgl_batch(SortedByNodes(graphs)),
                labels |-> torch_stack(labels)]

collate_drop_last(datapoints) ==
    IF datapoints = <<>>
      THEN [status |-> "ValueError", bg |-> <<>>, labels |-> <<>>]
      ELSE LET graphs == [k \in 1..Len(datapoints) |-> datapoints[k][1]]
               labels == [k \in 1..Len(datapoints) |-> datapoints[k][2]]
           IN  [status |-> "ok",
                bg |-> dgl_batch(SubSeq(graphs, 1, Len(graphs) - 1)),
                labels |-> torch_stack(labels)]

\* graphs, labels = map(list, zip(*data)) raises ValueError for an empty
\* list: zip() yields nothing to unpack.
collate_molgraphs_for_classification(datapoints) ==
    IF datapoints = <<>>
      THEN [status |-> "ValueError", bg |-> <<>>, labels |-> <<>>]
      ELSE LET graphs == [k \in 1..Len(datapoints) |-> datapoints[k][1]]
               labels == [k \in 1..Len(datapoints) |-> datapoints[k][2]]
           IN  [status |-> "ok",
                bg |-> dgl_batch(graphs),
                labels |-> torch_stack(labels)]

(***************************************************************************)
(* The model.  Widths 18, 64 and 6 are narrowed to one number per node and *)
(* per graph; w holds [W, b] of the three GraphConv layers and [Wc, bc] of *)
(* the classifier.                                                         *)
(***************************************************************************)
Relu(x) == IF x < 0 THEN 0 ELSE x

RECURSIVE SumOver(_, _)
SumOver(S, h) ==
    IF S = {} THEN 0
    ELSE LET u == CHOOSE x \in S : TRUE IN h[u + 1] + SumOver(S \ {u}, h)

InNeighbours(g, v) == {u \in 0..(g.n - 1) : <<u, v>> \in g.edges}

\* conv.GraphConv(..., activation=F.relu)(g, h): the features of the
\* in-neighbours are aggregated, then the linear map and the activation.
GraphConv(g, h, W, b) ==
    [k \in 1..g.n |-> Relu(W * SumOver(InNeighbours(g, k - 1), h) + b)]

\* nodes of graph k of a batched graph
Segment(bg, k) ==
    LET first == SumSeq(SubSeq(bg.batch_num_nodes, 1, k - 1))
    IN  first..(first + bg.batch_num_nodes[k] - 1)

\* dgl.sum_nodes(g, 'feat'): one sum per graph of the batch
sum_nodes(bg, h) ==
    [k \in 1..Len(bg.batch_num_nodes) |-> SumOver(Segment(bg, k), h)]

mean_nodes(bg, h) ==
    [k \in 1..Len(bg.batch_num_nodes) |->
        SumOver(Segment(bg, k), h) \div bg.batch_num_nodes[k]]

Linear(x, W, b) == [k \in 1..Len(x) |-> W * x[k] + b]

\* the node embeddings after the three layers
Layers(g, features, w) ==
    LET h1 == GraphConv(g, features, w.W[1], w.b[1])
        h2 == GraphConv(g, h1, w.W[2], w.b[2])
    IN  GraphConv(g, h2, w.W[3], w.b[3])

forward_mean_readout(g, features, w) ==
    Linear(mean_nodes(g, Layers(g, features, w)), w.Wc, w.bc)

\* GCNModel.forward(g, features)
forward(g, features, w) ==
    Linear(sum_nodes(g, Layers(g, features, w)), w.Wc, w.bc)

(***************************************************************************)
(* SpecBatch: one step of a loader and the forward pass on its batch, for  *)
(* every list of up to MaxBatch small graphs.                              *)
(***************************************************************************)
Path(n) == UNION {{<<u, u + 1>>, <<u + 1, u>>} : u \in 0..(n - 2)}

AttrChoices == {0, 1}

LabelChoices == {0, NumClasses - 1}

GraphChoices ==
    {[n |-> n,
      edges |-> IF e THEN Path(n) ELSE {},
      node_attr |-> [j \in 1..n |-> a + 2 * (j - 1)]] :
        n \in 1..MaxNodes, e \in BOOLEAN, a \in AttrChoices}

Datapoints == GraphChoices \X LabelChoices

WeightChoices ==
    {[W |-> W, b |-> b, Wc |-> 2, bc |-> 1] :
        W \in {<<1, 1, 1>>, <<2, 0 - 1, 1>>},
        b \in {<<1, 0, 2>>, <<0, 1, 1>>}}

InitBatch ==
    /\ pc = "collate"
    /\ num_data = 0
    /\ mt = [s \in {Seed} |-> <<>>]
    /\ np_global = 0
    /\ trainset = <<>>
    /\ valset = <<>>
    /\ split_log = <<>>
    /\ cuda = FALSE
    /\ NotYetRun
    /\ collated = [status |-> "pending", bg |-> <<>>, labels |-> <<>>]
    /\ output = <<>>
    /\ \E len \in 0..MaxBatch : data \in [1..len -> Datapoints]
    /\ weights \in WeightChoices

\* the loader hands the datapoints of one batch to collate_fn
CollateCall ==
    /\ pc = "collate"
    /\ collated' = collate_molgraphs_for_classification(data)
    /\ pc' = IF collated'.status = "ok" THEN "model" ELSE "error"
    /\ UNCHANGED <<splitVars, envVars, stepVars, countVars, data, weights, output>>

\* atom_feats = bg.ndata.pop('node_attr').float(); logits = model(bg, atom_feats)
ForwardCall ==
    /\ pc = "model"
    /\ output' = forward(collated.bg, collated.bg.node_attr, weights)
    /\ pc' = "batch_done"
    /\ UNCHANGED <<splitVars, envVars, stepVars, countVars, data, collated, weights>>

NextBatch == CollateCall \/ ForwardCall

SpecBatch == InitBatch /\ [][NextBatch]_vars

\* graph k of a batched graph, renumbered from 0 again (dgl.unbatch)
SegmentGraph(bg, k) ==
    LET first == SumSeq(SubSeq(bg.batch_num_nodes, 1, k - 1))
        n == bg.batch_num_nodes[k]
    IN  [n |-> n,
         edges |-> {<<e[1] - first, e[2] - first>> :
                       e \in {d \in bg.edges : d[1] \in Segment(bg, k)}},
         node_attr |-> SubSeq(bg.node_attr, first + 1, first + n)]

\* the logit of one graph batched alone
AloneLogit(g, w) ==
    LET bg == dgl_batch(<<g>>) IN forward(bg, bg.node_attr, w)[1]

\* C4: for a non-empty list collate_fn returns; the label vector is as long
\* as the list and its k-th entry is the k-th pair's label; the k-th segment
\* of the merged graph is the k-th pair's graph; so the k-th prediction is
\* the prediction for the graph that the k-th label belongs to.
C4_CollateKeepsOrder ==
    /\ (pc # "collate" /\ data # <<>>) => collated.status = "ok"
    /\ collated.status = "ok" =>
          /\ Len(collated.labels) = Len(data)
          /\ Len(collated.bg.batch_num_nodes) = Len(data)
          /\ \A k \in 1..Len(data) :
                /\ collated.labels[k] = data[k][2]
                /\ SegmentGraph(collated.bg, k) = data[k][1]
    /\ pc = "batch_done" =>
          /\ Len(output) = Len(collated.labels)
          /\ \A k \in 1..Len(data) : output[k] = AloneLogit(data[k][1], weights)

C4_Witness ==
    /\ pc = "batch_done"
    /\ Len(data) = 2
    /\ data[1][1].n > data[2][1].n
    /\ data[1][1].edges # {}
    /\ data[1][2] # data[2][2]
    /\ output[1] # output[2]

Isolated(x) == [n |-> 1, edges |-> {}, node_attr |-> <<x>>]

\* what the three layers make of a node that stands alone
PerNode(x, w) == Layers(Isolated(x), <<x>>, w)[1]

InitTrain ==
    /\ pc = "train_mode"
    /\ num_data \in MainSizes
    /\ mt \in [{Seed} -> PermChoices(num_data)]
    /\ np_global = 1 % MaxRng
    /\ trainset = SplitCellResult(num_data, mt, mt[Seed])[1]
    /\ valset = SplitCellResult(num_data, mt, mt[Seed])[2]
    /\ split_log = <<[train |-> trainset, val |-> valset, rng |-> np_global]>>
    /\ cuda \in BOOLEAN
    /\ epochs \in 0..MaxEpochs
    /\ i = None
    /\ batch_id = 0
    /\ batch = <<>>
    /\ logits = <<>>
    /\ loss = <<>>
    /\ grads = <<>>
    /\ params = 0
    /\ opt_steps = 0
    /\ training = TRUE
    /\ loss_list = 0
    /\ true_samples = 0
    /\ num_samples = 0
    /\ visited = <<>>
    /\ lines = 0
    /\ last_line = <<>>
    /\ NoBatch

NextTrain == TrainingCell \/ ValidationCell

SpecTrain == InitTrain /\ [][NextTrain]_vars

\* the scheduling of a script: the next statement always runs
FairSpec == Init /\ [][Next]_vars /\ WF_vars(Next)

ValidationPcs == {"eval_mode", "val_fetch", "val_forward", "val_accumulate", "val_print"}

TrainingOver == pc \in ValidationPcs \cup {"done"}

\* C6: with epochs = 0 the training cell calls optimizer.step() never,
\* leaves the parameters at their initial value and prints no epoch line.
C6_ZeroEpochsNoChange ==
    epochs = 0 =>
        /\ pc \in {"train_mode", "epoch"} \cup ValidationPcs \cup {"done"}
        /\ params = 0
        /\ opt_steps = 0
        /\ grads = <<>>
        /\ lines = 0

C6_Witness ==
    /\ epochs = 0
    /\ pc = "done"
    /\ last_line # <<>>

\* what holds of the training loop in every state
C8_Counts ==
    /\ pc = "step" =>
          /\ logits = [epoch |-> i, batch_id |-> batch_id, params |-> params,
                       rows |-> Len(batch), correct |-> logits.correct]
          /\ loss = [epoch |-> i, batch_id |-> batch_id, params |-> params]
          /\ grads = <<loss>>
          /\ opt_steps = i * NumBatches(trainset) + batch_id - 1
          /\ batch = LoaderBatch(trainset, batch_id - 1)
    /\ pc = "print" =>
          /\ visited = trainset
          /\ batch_id = NumBatches(trainset)
          /\ loss_list = batch_id
          /\ opt_steps = (i + 1) * batch_id
          /\ lines = i
    /\ TrainingOver =>
          /\ epochs \in {EpochsCpu, EpochsCuda}
          /\ epochs = EpochsCuda <=> cuda
          /\ i = epochs
          /\ opt_steps = epochs * NumBatches(trainset)
          /\ params = opt_steps
          /\ lines = epochs

\* C8: the training loop ends, after the fixed epoch count E (50, or 500 with
\* cuda): each epoch takes every batch of the train subset once, in loader
\* order; each batch gets forward pass, loss, gradient of that loss alone
\* and one optimizer step, in this order; in all there are
\* E * ceil(|train| / 512) optimizer steps and E epoch lines.
C8_TrainingRunsAllEpochs == <>TrainingOver /\ []C8_Counts

C8_Witness ==
    /\ pc = "done"
    /\ ~cuda
    /\ NumBatches(trainset) = 2
    /\ opt_steps = 2 * EpochsCpu
    /\ lines = EpochsCpu

\* C9: only optimizer.step() changes the parameters; the validation cell
\* changes neither them nor the optimizer, and has gone over the
\* validation subset exactly once when it prints.
C9_OnlyStepWritesParams ==
    [][/\ params' # params => pc = "step"
       /\ pc \in ValidationPcs => (params' = params /\ opt_steps' = opt_steps
                                     /\ grads' = grads)
       /\ pc = "val_print" => (visited = valset
                                 /\ batch_id = NumBatches(valset))]_vars

C9_Witness ==
    /\ pc = "done"
    /\ params > 0
    /\ visited = valset
    /\ valset # <<>>

====
